---- MODULE Spec2Model ----
(***************************************************************************)
(* Session/process management of the language-service gateway.            *)
(*                                                                         *)
(*  - JavaLanguageServer (src/src/languageserver/JavaLanguageServer.ts):   *)
(*    the framed-family Session Process Owner, relaying frames verbatim.   *)
(*  - CsharpLanguageServer (src/unnamed/part_002): the line-protocol       *)
(*    family owner with its request correlation.                           *)
(*  - LanguageServerManager (the Session Registry) and RequestQueueManager *)
(*    (the Request Correlator) are imported by both owners but their       *)
(*    sources are not part of src/; they are modelled from spec.md 4.3/4.6.*)
(*  - The Protocol Translator of CsharpLanguageServer: the open-document  *)
(*    table with didOpen/didChange, and the replies the completion, hover  *)
(*    and definition handlers build from the backend's answers.  applyEdits*)
(*    and getPosition (../protocol/TextDocument) are not part of src/ and  *)
(*    are modelled from spec.md 4.4.                                       *)
(***************************************************************************)
EXTENDS Integers, Sequences, FiniteSets, TLC

\* ------------------------------------------------------------------ bounds
MaxOwners == 3       \* Java owners constructed in one run
NumKeys == 2         \* distinct session identifiers (spaceKey)
MaxMsgs == 2         \* messages relayed per direction of one Java session
MaxCalls == 3        \* makeRequest invocations in one C# session
MaxAnomalies == 1    \* unmatched response packets handled in one C# session
MaxVersion == 1      \* document versions a client announces
MaxLen == 2          \* characters of a document text
MaxChanges == 2      \* content changes carried by one didChange
MaxDocCalls == 3     \* makeRequest invocations in one document session
MaxDocVersion == 2   \* document versions announced in one document session
MaxCandidates == 3   \* candidates in one AutoComplete response
MaxNoise == 1        \* output lines of the backend that are no packets

Owners == 1..MaxOwners
SpaceKeys == 1..NumKeys

VARIABLES
  registry,   \* LanguageServerManager: set of <<spaceKey, owner>> entries
  created,    \* number of JavaLanguageServer instances constructed so far
  lastCreate, \* outcome of the latest registry create call
  java,       \* per instance: the fields of JavaLanguageServer and its peers
  cs,         \* the fields of the CsharpLanguageServer instance and its peers
  io          \* one call of a translation function: its input and its result

vars == <<registry, created, lastCreate, java, cs, io>>

\* No translation call under way.
NoIo == [kind |-> "none"]

\* ------------------------------------------------- Session Registry (4.6)
\* create(sessionId, ...) fails if an entry already exists for sessionId.
RegistryHas(reg, key) == \E e \in reg : e[1] = key

\* create(sessionId, ...) stores the new owner under sessionId.
RegistryCreate(reg, key, o) == reg \cup {<<key, o>>}

\* dispose(sessionId): removes the entry if present, no-op when absent.
RegistryDispose(reg, key) == {e \in reg : e[1] # key}

\* ------------------------------------------------- JavaLanguageServer
\* Fields after field initialisers only (no instance constructed yet).
JavaBlank ==
  [spaceKey |-> 0, pc |-> "none", process |-> "undefined", destroyed |-> FALSE,
   socket |-> "none", killCalls |-> 0, registryDisposeCalls |-> 0,
   fault |-> FALSE, received |-> <<>>, stdin |-> <<>>, read |-> <<>>,
   sent |-> <<>>]

\* constructor(spaceKey, socket): stores both, destroyed = false, process is
\* still undefined, and dispose is subscribed to the socket's 'disconnect'.
JavaConstructed(key) ==
  [JavaBlank EXCEPT !.spaceKey = key, !.pc = "constructed", !.socket = "connected"]

\* dispose(): destroyed = true; servicesManager.dispose(spaceKey);
\* process.kill().  There is no guard on destroyed, so every call repeats all
\* three steps.  With process still undefined the last step throws a
\* TypeError out of the event handler (fault).
JavaDisposed(r) ==
  [r EXCEPT !.destroyed = TRUE,
            !.registryDisposeCalls = @ + 1,
            !.killCalls = IF r.process = "undefined" THEN @ ELSE @ + 1,
            !.fault = @ \/ (r.process = "undefined")]

\* The whole effect of dispose() on instance o whose record is r on entry.
JavaDispose(o, r) ==
  /\ java' = [java EXCEPT ![o] = JavaDisposed(r)]
  /\ registry' = RegistryDispose(registry, r.spaceKey)

\* Registry create for key: refused while an entry exists, otherwise a new
\* JavaLanguageServer is constructed and stored.
Create(key) ==
  /\ created < MaxOwners
  /\ IF RegistryHas(registry, key)
       THEN /\ lastCreate' = [key |-> key, ok |-> FALSE, owner |-> 0]
            /\ UNCHANGED <<registry, created, java, cs, io>>
       ELSE /\ created' = created + 1
            /\ registry' = RegistryCreate(registry, key, created + 1)
            /\ java' = [java EXCEPT ![created + 1] = JavaConstructed(key)]
            /\ lastCreate' = [key |-> key, ok |-> TRUE, owner |-> created + 1]
            /\ UNCHANGED <<cs, io>>

\* start(), up to its first suspension: prepareExecutable() runs
\* prepareParams() synchronously; with no launcher jar it throws, the promise
\* of start() is rejected and nothing else happens.  Otherwise start()
\* suspends on findJavaHome().
JavaStartBegin(o, launcherFound) ==
  /\ java[o].pc = "constructed"
  /\ java' = [java EXCEPT ![o].pc = IF launcherFound THEN "resolving" ELSE "failed"]
  /\ UNCHANGED <<registry, created, lastCreate, cs, io>>

\* start(), after findJavaHome() settles.  A rejection is caught and logged,
\* executable.command stays undefined and cp.spawn(undefined, args) throws,
\* rejecting start().  Otherwise the process is spawned, startConversion()
\* subscribes both listeners and the 'exit' handler is registered.
JavaStartResume(o, javaHomeFound) ==
  /\ java[o].pc = "resolving"
  /\ java' = [java EXCEPT ![o] =
       IF javaHomeFound
         THEN [@ EXCEPT !.pc = "active", !.process = "running"]
         ELSE [@ EXCEPT !.pc = "failed"]]
  /\ UNCHANGED <<registry, created, lastCreate, cs, io>>

\* socket 'disconnect' event: the subscribed dispose runs.
JavaDisconnect(o) ==
  /\ java[o].socket = "connected"
  /\ JavaDispose(o, [java[o] EXCEPT !.socket = "disconnected"])
  /\ UNCHANGED <<created, lastCreate, cs, io>>

\* process 'exit' event (the process ended by itself or after a kill): the
\* handler registered in start() calls dispose().
JavaExit(o) ==
  /\ java[o].process = "running"
  /\ JavaDispose(o, [java[o] EXCEPT !.process = "exited"])
  /\ UNCHANGED <<created, lastCreate, cs, io>>

\* Messages either peer can emit, each as the sequence of its bytes.
Payloads == {<<1>>, <<1, 2>>}

\* The frame startConversion() builds for a backend message: the
\* Content-Length header carrying Buffer.byteLength of the serialised
\* message, then the message itself.
Frame(m) == [contentLength |-> Len(m), body |-> m]

\* A relay that loses the order of arrival: the newest message goes first.
StdinWrite_Reordered(r, m) ==
  [r EXCEPT !.received = Append(@, m),
            !.stdin = <<[msg |-> m, destroyed |-> r.destroyed]>> \o @]

\* websocketMessageReader listener, called with client message m:
\* process.stdin.write(data.jsonrpc), synchronously and once.
StdinWrite(r, m) ==
  [r EXCEPT !.received = Append(@, m),
            !.stdin = Append(@, [msg |-> m, destroyed |-> r.destroyed])]

\* messageReader listener, called with backend message m: socket.send of
\* the frame built from m, synchronously and once.
SocketSend(r, m) ==
  [r EXCEPT !.read = Append(@, m),
            !.sent = Append(@, [msg |-> Frame(m), destroyed |-> r.destroyed])]

\* A client message reaches the websocketMessageReader listener.  The
\* listener is never removed; it runs for as long as the socket delivers.
JavaClientMessage(o, m) ==
  /\ java[o].pc = "active"
  /\ java[o].socket = "connected"
  /\ Len(java[o].stdin) < MaxMsgs
  /\ java' = [java EXCEPT ![o] = StdinWrite(@, m)]
  /\ UNCHANGED <<registry, created, lastCreate, cs, io>>

\* A backend message reaches the StreamMessageReader listener on
\* process.stdout.  The listener is never removed; a killed process can
\* still emit output until it has exited.
JavaBackendMessage(o, m) ==
  /\ java[o].pc = "active"
  /\ java[o].process = "running"
  /\ Len(java[o].sent) < MaxMsgs
  /\ java' = [java EXCEPT ![o] = SocketSend(@, m)]
  /\ UNCHANGED <<registry, created, lastCreate, cs, io>>

\* ------------------------------------------------- CsharpLanguageServer
CsOwner == "csharp"
Bodies == {"b1"}
Messages == {"none", "m1"}
Uris == {"a.cs"}
Texts == {<<"x">>}
CommandNames ==
  {"Projects", "UpdateBuffer", "CodeCheck", "TypeLookup", "AutoComplete",
   "GoToDefinition", "FindUsages"}

\* What openedDocumentUris.get(uri) gives for a uri without an entry.
NoDocument == [open |-> FALSE, version |-> 0, text |-> <<>>]

\* Fields after field initialisers only: _nextId = 1, an empty
\* openedDocumentUris map, destroyed = false, serverProcess undefined.
CsBlank ==
  [spaceKey |-> 0, pc |-> "none", serverProcess |-> "undefined",
   destroyed |-> FALSE, socket |-> "none", _nextId |-> 1,
   killCalls |-> 0, registryDisposeCalls |-> 0, fault |-> FALSE,
   calls |-> <<>>, requestQueue |-> {}, written |-> <<>>, anomalies |-> 0,
   openedDocumentUris |-> [u \in Uris |-> NoDocument],
   closeNotified |-> {}, handlerFault |-> FALSE,
   noiseLines |-> 0, lateResponses |-> {}]

\* constructor(spaceKey, socket): registers the handlers, calls start()
\* (which suspends on resolveExecutable()), subscribes dispose to the
\* websocket's close and starts listening for client calls.
CsConstructed(key) ==
  [CsBlank EXCEPT !.spaceKey = key, !.pc = "resolving", !.socket = "open"]

\* The Arguments of a request packet as far as the model reads them: the
\* value under the key FileName, the value under the key Filename, and the
\* Buffer; "undefined" where the handler sets no such key.
Arguments(FileName, Filename, hasBuffer, Buffer) ==
  [FileName |-> FileName, Filename |-> Filename,
   hasBuffer |-> hasBuffer, Buffer |-> Buffer]

\* The data of a call that names no file.
NoArguments == Arguments("undefined", "undefined", FALSE, <<>>)

\* One makeRequest invocation as its caller sees it: the promise's state and
\* value, the caller's cancellation token and whether makeRequest subscribed
\* to it, and the Seq the request was written under (0: never written).
Call(command, uri, origin, token, listener, state, result, seq) ==
  [command |-> command, uri |-> uri, origin |-> origin, token |-> token,
   listener |-> listener, state |-> state, result |-> result, seq |-> seq]

\* Request Correlator (4.3), enqueue: the request is stored under the
\* sequence number assigned to it (the number _makeRequest returns).
RequestQueueEnqueue(queue, id, i) == queue \cup {<<id, i>>}

\* Request Correlator (4.3), dequeue(command, sequenceNumber): the pending
\* request stored under sequenceNumber, the only correlation key; none when
\* it was never enqueued or is already removed.
RequestQueueDequeue(queue, command, seq) == {e \in queue : e[1] = seq}

\* Request Correlator (4.3), cancel(pendingRequest): the entry of that
\* request, which is removed and failed with a cancellation signal.
RequestQueueCancel(queue, i) == {e \in queue : e[2] = i}

\* A mutant of _makeRequest: the id is computed but never stored back.
_makeRequest_NotStored(c, command, data) ==
  IF c.serverProcess = "undefined"
    THEN [c |-> c, id |-> 0]
    ELSE [c |-> [c EXCEPT !.written = Append(@,
                   [Seq |-> c._nextId + 1, Command |-> command,
                    Arguments |-> data, destroyed |-> c.destroyed,
                    exited |-> c.serverProcess = "exited"])],
          id |-> c._nextId + 1]

\* _makeRequest(request): nothing without a serverProcess; otherwise
\* id = (_nextId += 1), the packet {Type, Seq: id, Command, Arguments} is
\* written to serverProcess.stdin and id is returned.  The write is issued
\* whatever the state of the process and of destroyed.
_makeRequest(c, command, data) ==
  IF c.serverProcess = "undefined"
    THEN [c |-> c, id |-> 0]
    ELSE [c |-> [c EXCEPT !._nextId = @ + 1,
                          !.written = Append(@,
                   [Seq |-> c._nextId + 1, Command |-> command,
                    Arguments |-> data, destroyed |-> c.destroyed,
                    exited |-> c.serverProcess = "exited"])],
          id |-> c._nextId + 1]

\* A mutant of makeRequest: the token's cancellation is never subscribed to.
makeRequest_NoListener(c, command, data, uri, origin, hasToken) ==
  LET token == IF hasToken THEN "live" ELSE "none" IN
  IF c.serverProcess = "undefined"
    THEN [c EXCEPT !.calls = Append(@,
            Call(command, uri, origin, token, FALSE, "rejected", "stopped", 0))]
    ELSE LET r == _makeRequest(c, command, data)
             i == Len(c.calls) + 1
         IN [r.c EXCEPT
               !.calls = Append(@,
                 Call(command, uri, origin, token, FALSE, "pending", "none", r.id)),
               !.requestQueue = RequestQueueEnqueue(@, r.id, i)]

\* A makeRequest without the test of serverProcess.
makeRequest_NoGuard(c, command, data, uri, origin, hasToken) ==
  LET token == IF hasToken THEN "live" ELSE "none"
      r == _makeRequest(c, command, data)
      i == Len(c.calls) + 1
  IN [r.c EXCEPT
        !.calls = Append(@,
          Call(command, uri, origin, token, hasToken, "pending", "none", r.id)),
        !.requestQueue = RequestQueueEnqueue(@, r.id, i)]

\* makeRequest(command, data, token): without a serverProcess the promise is
\* rejected with 'server has been stopped or not started.' before anything
\* else; otherwise the request is enqueued (the promise executor runs
\* synchronously) and, when a token is given, cancelRequest is subscribed to
\* its cancellation.  destroyed is not consulted.
makeRequest(c, command, data, uri, origin, hasToken) ==
  LET token == IF hasToken THEN "live" ELSE "none" IN
  IF c.serverProcess = "undefined"
    THEN [c EXCEPT !.calls = Append(@,
            Call(command, uri, origin, token, FALSE, "rejected", "stopped", 0))]
    ELSE LET r == _makeRequest(c, command, data)
             i == Len(c.calls) + 1
         IN [r.c EXCEPT
               !.calls = Append(@,
                 Call(command, uri, origin, token, hasToken, "pending", "none", r.id)),
               !.requestQueue = RequestQueueEnqueue(@, r.id, i)]

\* The rest of the didOpen handler once its awaited UpdateBuffer call has
\* resolved: makeRequest(CodeCheck, {FileName}, source.token).  It runs as a
\* promise reaction, before any further event is delivered.  A rejected
\* UpdateBuffer call ends the handler instead.
DidOpenResume(c, i) ==
  IF c.calls[i].origin = "didOpen" /\ c.calls[i].state = "resolved"
    THEN makeRequest(c, "CodeCheck",
           Arguments(c.calls[i].uri, "undefined", FALSE, <<>>),
           c.calls[i].uri, "codeCheck", TRUE)
    ELSE c

\* What a response packet hands to the caller: Body on success, otherwise
\* packet.Message || packet.Body.
Outcome(packet) ==
  IF packet.Success
    THEN [state |-> "resolved", result |-> packet.Body]
    ELSE [state |-> "rejected",
          result |-> IF packet.Message # "none" THEN packet.Message
                                                ELSE packet.Body]

\* A mutant of _handleResponsePacket: the missing request is logged but the
\* handler goes on and calls a callback of undefined, which throws.
_handleResponsePacket_NoReturn(c, packet) ==
  LET found == RequestQueueDequeue(c.requestQueue, packet.Command, packet.Request_seq) IN
  IF found = {}
    THEN [c EXCEPT !.anomalies = @ + 1, !.fault = TRUE]
    ELSE LET e == CHOOSE x \in found : TRUE
             i == e[2]
         IN DidOpenResume(
              [c EXCEPT !.requestQueue = @ \ {e},
                        !.calls[i].state = Outcome(packet).state,
                        !.calls[i].result = Outcome(packet).result], i)

\* A mutant of _handleResponsePacket: Success is not consulted.
_handleResponsePacket_AlwaysSuccess(c, packet) ==
  LET found == RequestQueueDequeue(c.requestQueue, packet.Command, packet.Request_seq) IN
  IF found = {}
    THEN [c EXCEPT !.anomalies = @ + 1]
    ELSE LET e == CHOOSE x \in found : TRUE
             i == e[2]
         IN DidOpenResume(
              [c EXCEPT !.requestQueue = @ \ {e},
                        !.calls[i].state = "resolved",
                        !.calls[i].result = packet.Body], i)

\* _handleResponsePacket(packet): dequeue(Command, Request_seq); when no
\* request is found an error is logged and the handler returns; otherwise
\* onSuccess(Body) or onError(Message || Body) settles that request's
\* promise, whose reactions then run.
_handleResponsePacket(c, packet) ==
  LET found == RequestQueueDequeue(c.requestQueue, packet.Command, packet.Request_seq) IN
  IF found = {}
    THEN [c EXCEPT !.anomalies = @ + 1]
    ELSE LET e == CHOOSE x \in found : TRUE
             i == e[2]
         IN DidOpenResume(
              [c EXCEPT !.requestQueue = @ \ {e},
                        !.calls[i].state = Outcome(packet).state,
                        !.calls[i].result = Outcome(packet).result], i)

\* An output line of the backend after removeBOMFromString: its first
\* character, whether JSON.parse accepts it, and the packet it spells (for a
\* line that is not accepted, the packet its text resembles).  A packet
\* without a Type field has Type "none".
Line(first, parses, packet) == [first |-> first, parses |-> parses, packet |-> packet]

\* The line a well-formed packet is written as.
PacketLine(packet) == Line("{", TRUE, packet)

\* A lineReceived that takes whatever the line spells for a response.
lineReceived_Unchecked(c, line) ==
  IF line.packet.Type \in {"response", "none"}
    THEN _handleResponsePacket(c, line.packet)
    ELSE c

\* lineReceived(line): a line whose first character is not '{', a line
\* JSON.parse throws on and a packet without a Type are returned from
\* without any effect; 'response' goes to _handleResponsePacket, 'event' to
\* _handleEventPacket, which does nothing.
lineReceived(c, line) ==
  IF line.first # "{" THEN c
  ELSE IF ~line.parses THEN c
  ELSE IF line.packet.Type = "none" THEN c
  ELSE IF line.packet.Type = "response" THEN _handleResponsePacket(c, line.packet)
  ELSE c

\* A cancellation that fails the request but leaves it in the queue.
CancelToken_KeepsEntry(c, i) ==
  LET found == RequestQueueCancel(c.requestQueue, i)
      marked == [c EXCEPT !.calls[i].token = "cancelled"]
  IN IF c.calls[i].listener /\ found # {}
       THEN [marked EXCEPT !.calls[i].state = "rejected",
                           !.calls[i].result = "cancelled"]
       ELSE marked

\* The token's cancellation event: the callback subscribed by makeRequest
\* calls requestQueue.cancelRequest(request), which removes the request when
\* it is still pending and fails its promise with the cancellation signal.
CancelToken(c, i) ==
  LET found == RequestQueueCancel(c.requestQueue, i)
      marked == [c EXCEPT !.calls[i].token = "cancelled"]
  IN IF c.calls[i].listener /\ found # {}
       THEN [marked EXCEPT !.requestQueue = @ \ found,
                           !.calls[i].state = "rejected",
                           !.calls[i].result = "cancelled"]
       ELSE marked

\* textDocument/didOpen: the TextDocument is stored under its uri, then
\* makeRequest(UpdateBuffer, {FileName, Buffer}) is awaited (no token).
DidOpen(c, uri, version, text) ==
  LET stored == [c EXCEPT !.openedDocumentUris[uri] =
                    [open |-> TRUE, version |-> version, text |-> text],
                          !.closeNotified = @ \ {uri}]
      called == makeRequest(stored, "UpdateBuffer",
                            Arguments(uri, "undefined", TRUE, text),
                            uri, "didOpen", FALSE)
  IN DidOpenResume(called, Len(called.calls))

\* A handler reads a property of openedDocumentUris.get(uri), which is
\* undefined for a uri without an entry: a TypeError is thrown inside the
\* handler before it does anything else.
MissingDocument(c) == [c EXCEPT !.fault = TRUE, !.handlerFault = TRUE]

\* textDocument/hover: lspDocument.getText() throws when the uri has no
\* entry; otherwise makeRequest(TypeLookup, request, source.token).
Hover(c, uri) ==
  IF ~c.openedDocumentUris[uri].open
    THEN MissingDocument(c)
    ELSE makeRequest(c, "TypeLookup",
                     Arguments(uri, "undefined", TRUE, c.openedDocumentUris[uri].text),
                     uri, "hover", TRUE)

\* textDocument/completion: lspDocument.getText(range) throws when the uri
\* has no entry; otherwise makeRequest(AutoComplete, request), no token.
\* createRequest sets Buffer to undefined.
Completion(c, uri) ==
  IF ~c.openedDocumentUris[uri].open
    THEN MissingDocument(c)
    ELSE makeRequest(c, "AutoComplete", Arguments(uri, "undefined", FALSE, <<>>),
                     uri, "completion", FALSE)

\* textDocument/definition: createRequest reads document.uri and throws
\* when the uri has no entry; otherwise makeRequest(GoToDefinition,
\* {...request, WantMetadata}), no token.
Definition(c, uri) ==
  IF ~c.openedDocumentUris[uri].open
    THEN MissingDocument(c)
    ELSE makeRequest(c, "GoToDefinition", Arguments(uri, "undefined", FALSE, <<>>),
                     uri, "definition", FALSE)

\* textDocument/documentHighlight: createRequest throws when the uri has no
\* entry; otherwise makeRequest(FindUsages, request, cancelToken.token).
DocumentHighlight(c, uri) ==
  IF ~c.openedDocumentUris[uri].open
    THEN MissingDocument(c)
    ELSE makeRequest(c, "FindUsages", Arguments(uri, "undefined", FALSE, <<>>),
                     uri, "documentHighlight", TRUE)

\* Document texts: one line over a two-letter alphabet.
DocChars == {"a", "b"}
DocTexts == UNION {[1..n -> DocChars] : n \in 0..MaxLen}

Position(line, character) == [line |-> line, character |-> character]

\* getPosition(offset), the position of an offset: on one line, the
\* character index offset of line 0.
getPosition(offset) == Position(0, offset)

\* The offset a position denotes in text, as TextDocument.offsetAt gives
\* it: past the last line or the end of the line it is the text's length.
OffsetAt(text, position) ==
  IF position.line > 0 \/ position.character > Len(text)
    THEN Len(text)
    ELSE position.character

\* The content changes a didChange can carry: a range with the text that
\* replaces it, or the text alone (no range, no rangeLength).
RangedChanges ==
  {e \in [hasRange : {TRUE}, start : 0..MaxLen, end : 0..MaxLen,
          rangeLength : {0}, text : DocTexts] : e.start <= e.end}

FullChanges ==
  [hasRange : {FALSE}, start : {0}, end : {0}, rangeLength : {0}, text : DocTexts]

ContentChanges == RangedChanges \cup FullChanges

ChangeSeqs(changes) == UNION {[1..n -> changes] : n \in 1..MaxChanges}

\* The mapping didChange applies to each content change e:
\* TextEdit.replace(e.range || Range(Position(0, 0),
\* getPosition(e.rangeLength || 0)), e.text).
ToTextEdit(e) ==
  [start |-> IF e.hasRange THEN Position(0, e.start) ELSE Position(0, 0),
   end |-> IF e.hasRange THEN Position(0, e.end) ELSE getPosition(e.rangeLength),
   newText |-> e.text]

\* One range replacement against text.
ApplyEdit(text, edit) ==
  LET s == OffsetAt(text, edit.start)
      e == OffsetAt(text, edit.end)
  IN SubSeq(text, 1, s) \o edit.newText \o SubSeq(text, e + 1, Len(text))

\* applyEdits(text, edits): the range replacements applied strictly in the
\* order given, each against the text the previous one left.
RECURSIVE applyEdits(_, _)
applyEdits(text, edits) ==
  IF edits = <<>> THEN text
  ELSE applyEdits(ApplyEdit(text, Head(edits)), Tail(edits))

\* The text a didChange carrying contentChanges leaves for a document
\* whose text was text.
ChangedText(text, contentChanges) ==
  applyEdits(text, [k \in 1..Len(contentChanges) |-> ToTextEdit(contentChanges[k])])

\* textDocument/didChange: lspDocument.getText() throws when the uri has no
\* entry; otherwise the edited text is stored under the version the client
\* sent and makeRequest(UpdateBuffer, {Buffer, Filename}) is issued.
DidChange(c, uri, version, contentChanges) ==
  IF ~c.openedDocumentUris[uri].open
    THEN MissingDocument(c)
    ELSE LET afterDocument == ChangedText(c.openedDocumentUris[uri].text, contentChanges)
             stored == [c EXCEPT !.openedDocumentUris[uri] =
                          [open |-> TRUE, version |-> version, text |-> afterDocument]]
         IN makeRequest(stored, "UpdateBuffer",
                        Arguments("undefined", uri, TRUE, afterDocument),
                        uri, "didChange", FALSE)

\* textDocument/didClose: the constructor registers no handler for it, so
\* the notification changes no field; that it arrived is recorded.
DidClose(c, uri) == [c EXCEPT !.closeNotified = @ \cup {uri}]

\* dispose(): destroyed = true; servicesManager.dispose(spaceKey);
\* serverProcess.kill(), which throws while serverProcess is undefined.
\* Pending requests are left as they are and serverProcess stays set.
CsDisposed(c) ==
  [c EXCEPT !.destroyed = TRUE,
            !.registryDisposeCalls = @ + 1,
            !.killCalls = IF c.serverProcess = "undefined" THEN @ ELSE @ + 1,
            !.fault = @ \/ (c.serverProcess = "undefined")]

\* Slots of MaxCalls already spoken for: the Projects call of a start() still
\* resolving and the CodeCheck call behind every awaited didOpen UpdateBuffer.
Reserved(c) ==
  (IF c.pc = "resolving" THEN 1 ELSE 0)
  + Cardinality({i \in 1..Len(c.calls) :
       c.calls[i].origin = "didOpen" /\ c.calls[i].state = "pending"})

CanCall(c, n) == Len(c.calls) + Reserved(c) + n <= MaxCalls

\* The lines the backend can emit that parse as packets: responses naming a
\* command and a sequence number (1 is never assigned), successful with a
\* Body or failed with a Body and possibly a Message, and events.
ResponsePackets ==
  [Type : {"response"}, Command : {"UpdateBuffer", "TypeLookup"},
   Request_seq : 1..(MaxCalls + 1), Success : {TRUE},
   Body : Bodies, Message : {"none"}]
  \cup
  [Type : {"response"}, Command : {"UpdateBuffer", "TypeLookup"},
   Request_seq : 1..(MaxCalls + 1), Success : {FALSE},
   Body : Bodies, Message : Messages]

EventPackets ==
  [Type : {"event"}, Command : {"none"}, Request_seq : {0},
   Success : {FALSE}, Body : {"b1"}, Message : {"none"}]

Packets == ResponsePackets \cup EventPackets

\* Lines that are no packets: text in front of the '{' (a log line), a
\* truncated object JSON.parse rejects, and an object without a Type; each
\* of them otherwise spelling a successful response.
NoiseLines ==
  LET spelled == {p \in ResponsePackets : p.Success} IN
  {Line("x", FALSE, p) : p \in spelled}
  \cup {Line("{", FALSE, p) : p \in spelled}
  \cup {Line("{", TRUE, [p EXCEPT !.Type = "none"]) : p \in spelled}

Matched(c, packet) ==
  packet.Type = "response"
  /\ RequestQueueDequeue(c.requestQueue, packet.Command, packet.Request_seq) # {}

\* start() after resolveExecutable() settles: a rejection rejects start()
\* and nothing is spawned; otherwise mono is spawned, makeRequest(Projects)
\* is issued and lineReceived is subscribed to the process's output lines.
\* No 'exit' handler is registered.
CsStart(monoFound) ==
  /\ cs.pc = "resolving"
  /\ cs' = IF monoFound
             THEN makeRequest([cs EXCEPT !.pc = "started", !.serverProcess = "running"],
                              "Projects", NoArguments, "undefined", "start", FALSE)
             ELSE [cs EXCEPT !.pc = "failed"]
  /\ UNCHANGED <<registry, created, lastCreate, java, io>>

\* A textDocument/didOpen notification from the client.
CsDidOpen(uri, version, text) ==
  /\ cs.socket = "open"
  /\ CanCall(cs, IF cs.serverProcess = "undefined" THEN 1 ELSE 2)
  /\ cs' = DidOpen(cs, uri, version, text)
  /\ UNCHANGED <<registry, created, lastCreate, java, io>>

\* A textDocument/hover request from the client.
CsHover(uri) ==
  /\ cs.socket = "open"
  /\ CanCall(cs, 1)
  /\ cs' = Hover(cs, uri)
  /\ UNCHANGED <<registry, created, lastCreate, java, io>>

\* The owner of a token passed to makeRequest requests cancellation.
CsCancel(i) ==
  /\ i \in 1..Len(cs.calls)
  /\ cs.calls[i].token = "live"
  /\ cs' = CancelToken(cs, i)
  /\ UNCHANGED <<registry, created, lastCreate, java, io>>

\* A line of the backend's output reaches the readline listener.
CsLineReceived(packet) ==
  /\ cs.pc = "started"
  /\ cs.serverProcess = "running"
  /\ packet.Type = "response" /\ ~Matched(cs, packet) => cs.anomalies < MaxAnomalies
  /\ cs' = lineReceived(cs, PacketLine(packet))
  /\ UNCHANGED <<registry, created, lastCreate, java, io>>

\* The calls a response packet names that are settled already.
SettledCallsNamed(c, packet) ==
  {i \in 1..Len(c.calls) :
     /\ packet.Type = "response"
     /\ c.calls[i].seq = packet.Request_seq
     /\ c.calls[i].state # "pending"}

\* A packet line reaches the readline listener; that a response named a
\* call settled already is recorded.
CsPacketLine(packet) ==
  /\ cs.pc = "started"
  /\ cs.serverProcess = "running"
  /\ packet.Type = "response" /\ ~Matched(cs, packet) => cs.anomalies < MaxAnomalies
  /\ cs' = [lineReceived(cs, PacketLine(packet)) EXCEPT
              !.lateResponses = @ \cup SettledCallsNamed(cs, packet)]
  /\ UNCHANGED <<registry, created, lastCreate, java, io>>

\* A line that is no packet reaches the readline listener; that it did is
\* recorded.
CsNoiseLine(line) ==
  /\ cs.pc = "started"
  /\ cs.serverProcess = "running"
  /\ cs.noiseLines < MaxNoise
  /\ cs' = [lineReceived(cs, line) EXCEPT !.noiseLines = @ + 1]
  /\ UNCHANGED <<registry, created, lastCreate, java, io>>

\* websocket close: the subscribed dispose() runs.
CsClose ==
  /\ cs.socket = "open"
  /\ cs' = CsDisposed([cs EXCEPT !.socket = "closed"])
  /\ registry' = RegistryDispose(registry, cs.spaceKey)
  /\ UNCHANGED <<created, lastCreate, java, io>>

\* The backend process exits (by itself or after a kill).  start() registered
\* handlers for 'error' and for stderr data only, so nothing runs.
CsExit ==
  /\ cs.serverProcess = "running"
  /\ cs' = [cs EXCEPT !.serverProcess = "exited"]
  /\ UNCHANGED <<registry, created, lastCreate, java, io>>

\* ------------------------------------------------- translated replies
\* The text inside a range of a one-line document (TextDocument.getText).
GetText(text, start, end) ==
  SubSeq(text, OffsetAt(text, start) + 1, OffsetAt(text, end))

\* completion: range = Range.create(lspPosition, lspPosition) and
\* wordToComplete = lspDocument.getText(range) || ''.
WordToComplete(text, position) == GetText(text, position, position)

\* The candidates of an AutoComplete response, by the fields the handler
\* reads; an empty ReturnType stands for an absent one.
Candidates ==
  [CompletionText : {"f", "g"}, ReturnType : {"", "int"},
   DisplayText : {"f()"}, Preselect : BOOLEAN]

Responses == UNION {[1..n -> Candidates] : n \in 0..MaxCandidates}

\* The CompletionItem built from one candidate: label = CompletionText,
\* detail = ReturnType ? `${ReturnType} ${DisplayText}` : DisplayText (kept
\* as its parts, with the number of overloads the suffix names, 0 for no
\* suffix), preselect = Preselect.
ToCompletionItem(response) ==
  [label |-> response.CompletionText,
   detail |-> [text |-> IF response.ReturnType # ""
                          THEN <<response.ReturnType, response.DisplayText>>
                          ELSE <<response.DisplayText>>,
               overloads |-> 0],
   preselect |-> response.Preselect]

\* The first loop of the completion handler: the items grouped by label in
\* order of first appearance, each group with the disjunction of its items'
\* preselect.
RECURSIVE GroupCompletions(_, _)
GroupCompletions(responses, completions) ==
  IF responses = <<>> THEN completions
  ELSE LET completion == ToCompletionItem(Head(responses))
           found == {k \in 1..Len(completions) : completions[k].key = completion.label}
       IN IF found = {}
            THEN GroupCompletions(Tail(responses),
                   Append(completions,
                     [key |-> completion.label, items |-> <<completion>>,
                      preselect |-> completion.preselect]))
            ELSE LET k == CHOOSE x \in found : TRUE
                 IN GroupCompletions(Tail(responses),
                      [completions EXCEPT
                         ![k].preselect = @ \/ completion.preselect,
                         ![k].items = Append(@, completion)])

\* A second loop that keeps the first item's own preselect for a group.
Suggestion_FirstPreselect(completionSet) ==
  LET suggestion == completionSet.items[1]
      overloadCount == Len(completionSet.items) - 1
  IN IF overloadCount = 0
       THEN suggestion
       ELSE [suggestion EXCEPT !.detail.overloads = overloadCount]

\* The second loop, for one group: the first item; with overloads its detail
\* gets the suffix ` (+ ${overloadCount} overload(s))` and its preselect
\* becomes the group's.  The item is pushed in either case.
Suggestion(completionSet) ==
  LET suggestion == completionSet.items[1]
      overloadCount == Len(completionSet.items) - 1
  IN IF overloadCount = 0
       THEN suggestion
       ELSE [suggestion EXCEPT !.detail.overloads = overloadCount,
                               !.preselect = completionSet.preselect]

\* What the completion handler returns once AutoComplete has answered: a
\* bare empty array for a falsy response, otherwise
\* CompletionList.create(result, wordToComplete.length > 1 ? false : true).
CompletionReply(text, position, hasResponses, responses) ==
  IF ~hasResponses
    THEN [isList |-> FALSE, items |-> <<>>, isIncomplete |-> FALSE]
    ELSE LET completions == GroupCompletions(responses, <<>>)
         IN [isList |-> TRUE,
             items |-> [k \in 1..Len(completions) |-> Suggestion(completions[k])],
             isIncomplete |-> ~(Len(WordToComplete(text, position)) > 1)]

\* How an awaited makeRequest ends for its caller.
Settlements == {"resolved", "rejected"}

\* The answers to TypeLookup: no body, or a body with a Type ("" for an
\* empty one).
HoverResults == [settled : Settlements, isNull : BOOLEAN, Type : {"", "int"}]

\* A hover handler that reads result.Type without testing result first.
HoverReply_Unguarded(result) ==
  IF result.settled = "rejected" \/ result.isNull
    THEN [kind |-> "error", value |-> ""]
  ELSE IF result.Type # ""
    THEN [kind |-> "hover", value |-> result.Type]
    ELSE [kind |-> "empty", value |-> ""]

\* The rest of the hover handler once TypeLookup is settled: a rejection
\* propagates; if (result && result.Type) a Hover with the type is
\* returned; otherwise the handler returns undefined.
HoverReply(result) ==
  IF result.settled = "rejected"
    THEN [kind |-> "error", value |-> ""]
  ELSE IF ~result.isNull /\ result.Type # ""
    THEN [kind |-> "hover", value |-> result.Type]
    ELSE [kind |-> "empty", value |-> ""]

\* File and source names as their segments between '/' (none of which holds
\* a backslash); the empty sequence is an absent or empty name.
FileNames == {<<>>, <<"src", "a.cs">>, <<"$metadata$", "Asm", "T.cs">>}
SourceNames == {<<>>, <<"T.cs">>, <<"Asm", "T.cs">>}

\* The answers to GoToDefinition and to Metadata.
DefinitionResults ==
  [settled : Settlements, isNull : BOOLEAN, FileName : FileNames,
   MetadataSource : BOOLEAN]

MetadataResponses ==
  [settled : Settlements, isNull : BOOLEAN, Source : {"", "class T {}"},
   SourceName : SourceNames]

NoUri == [scheme |-> "", dir |-> <<>>, metadata |-> FALSE, file |-> ""]

FailedReply == [kind |-> "error", uri |-> NoUri]
EmptyReply == [kind |-> "empty", uri |-> NoUri]

\* createUri(sourceName): 'omnisharp-metadata://' followed by the name with
\* '[metadata] ' put after its last '/' (a name without '/' is unchanged).
createUri(sourceName) ==
  [scheme |-> "omnisharp-metadata",
   dir |-> SubSeq(sourceName, 1, Len(sourceName) - 1),
   metadata |-> Len(sourceName) >= 2,
   file |-> sourceName[Len(sourceName)]]

\* vscodeUri.file(fileName).
fileUri(fileName) ==
  [scheme |-> "file",
   dir |-> SubSeq(fileName, 1, Len(fileName) - 1),
   metadata |-> FALSE,
   file |-> fileName[Len(fileName)]]

\* A definition handler that takes the source name for a path on disk.
DefinitionReply_FileUri(result, metadataResponse) ==
  IF result.settled = "rejected" THEN FailedReply
  ELSE IF ~result.isNull /\ result.FileName # <<>>
    THEN [kind |-> "location",
          uri |-> IF Head(result.FileName) = "$metadata$"
                    THEN createUri(result.FileName)
                    ELSE fileUri(result.FileName)]
  ELSE IF result.isNull THEN FailedReply
  ELSE IF result.MetadataSource
    THEN IF metadataResponse.settled = "rejected" THEN FailedReply
         ELSE IF \/ metadataResponse.isNull
                 \/ metadataResponse.Source = ""
                 \/ metadataResponse.SourceName = <<>>
           THEN EmptyReply
           ELSE [kind |-> "location", uri |-> fileUri(metadataResponse.SourceName)]
    ELSE EmptyReply

\* The rest of the definition handler once GoToDefinition is settled.  A
\* rejection propagates.  With a FileName the location is in that file (a
\* virtual document when the name starts with $metadata$).  Otherwise
\* result.MetadataSource is read, which throws for a null result; with a
\* MetadataSource the Metadata request is awaited and the handler returns
\* undefined unless the response has both Source and SourceName, in which
\* case the location is in createUri(SourceName).
DefinitionReply(result, metadataResponse) ==
  IF result.settled = "rejected" THEN FailedReply
  ELSE IF ~result.isNull /\ result.FileName # <<>>
    THEN [kind |-> "location",
          uri |-> IF Head(result.FileName) = "$metadata$"
                    THEN createUri(result.FileName)
                    ELSE fileUri(result.FileName)]
  ELSE IF result.isNull THEN FailedReply
  ELSE IF result.MetadataSource
    THEN IF metadataResponse.settled = "rejected" THEN FailedReply
         ELSE IF \/ metadataResponse.isNull
                 \/ metadataResponse.Source = ""
                 \/ metadataResponse.SourceName = <<>>
           THEN EmptyReply
           ELSE [kind |-> "location", uri |-> createUri(metadataResponse.SourceName)]
    ELSE EmptyReply

\* A didChange's contentChanges are applied to a document text.
ApplyChanges ==
  /\ io.kind = "edits"
  /\ ~io.done
  /\ io' = [io EXCEPT !.done = TRUE,
                      !.out = ChangedText(io.text, io.contentChanges)]
  /\ UNCHANGED <<registry, created, lastCreate, java, cs>>

\* The completion handler resumes with the answer to AutoComplete.
ReplyCompletion ==
  /\ io.kind = "completion"
  /\ ~io.done
  /\ io' = [io EXCEPT !.done = TRUE,
                      !.out = CompletionReply(io.text, io.position,
                                              io.hasResponses, io.responses)]
  /\ UNCHANGED <<registry, created, lastCreate, java, cs>>

\* The hover handler resumes with the answer to TypeLookup.
ReplyHover ==
  /\ io.kind = "hover"
  /\ ~io.done
  /\ io' = [io EXCEPT !.done = TRUE, !.out = HoverReply(io.result)]
  /\ UNCHANGED <<registry, created, lastCreate, java, cs>>

\* The definition handler resumes with the answer to GoToDefinition and,
\* where it asks for it, the answer to Metadata.
ReplyDefinition ==
  /\ io.kind = "definition"
  /\ ~io.done
  /\ io' = [io EXCEPT !.done = TRUE,
                      !.out = DefinitionReply(io.result, io.metadataResponse)]
  /\ UNCHANGED <<registry, created, lastCreate, java, cs>>

\* A textDocument/didOpen notification in a document session.
DocsDidOpen(uri, version, text) ==
  /\ cs.socket = "open"
  /\ Len(cs.calls) < MaxDocCalls
  /\ cs' = DidOpen(cs, uri, version, text)
  /\ UNCHANGED <<registry, created, lastCreate, java, io>>

\* A textDocument/didChange notification in a document session.
DocsDidChange(uri, version, contentChanges) ==
  /\ cs.socket = "open"
  /\ Len(cs.calls) < MaxDocCalls
  /\ Len(ChangedText(cs.openedDocumentUris[uri].text, contentChanges)) <= MaxLen
  /\ cs' = DidChange(cs, uri, version, contentChanges)
  /\ UNCHANGED <<registry, created, lastCreate, java, io>>

\* A textDocument/didClose notification for a document the client has open.
DocsDidClose(uri) ==
  /\ cs.socket = "open"
  /\ cs.openedDocumentUris[uri].open
  /\ uri \notin cs.closeNotified
  /\ cs' = DidClose(cs, uri)
  /\ UNCHANGED <<registry, created, lastCreate, java, io>>

\* A hover, completion, definition or documentHighlight request in a
\* document session.
DocsQuery(method, uri) ==
  /\ cs.socket = "open"
  /\ Len(cs.calls) < MaxDocCalls
  /\ cs' = CASE method = "hover" -> Hover(cs, uri)
            [] method = "completion" -> Completion(cs, uri)
            [] method = "definition" -> Definition(cs, uri)
            [] method = "documentHighlight" -> DocumentHighlight(cs, uri)
  /\ UNCHANGED <<registry, created, lastCreate, java, io>>

\* ------------------------------------------------- specifications
\* Sessions of the framed family under the registry.
InitSession ==
  /\ registry = {}
  /\ created = 0
  /\ lastCreate = [key |-> 0, ok |-> FALSE, owner |-> 0]
  /\ java = [o \in Owners |-> JavaBlank]
  /\ cs = CsBlank
  /\ io = NoIo

NextSession ==
  \/ \E key \in SpaceKeys : Create(key)
  \/ \E o \in 1..created, found \in BOOLEAN : JavaStartBegin(o, found)
  \/ \E o \in 1..created, found \in BOOLEAN : JavaStartResume(o, found)
  \/ \E o \in 1..created : JavaDisconnect(o)
  \/ \E o \in 1..created : JavaExit(o)

SpecSession == InitSession /\ [][NextSession]_vars

\* One session of the framed family with its relay.
InitRelay ==
  /\ registry = {<<1, 1>>}
  /\ created = 1
  /\ lastCreate = [key |-> 1, ok |-> TRUE, owner |-> 1]
  /\ java = [o \in Owners |-> IF o = 1 THEN JavaConstructed(1) ELSE JavaBlank]
  /\ cs = CsBlank
  /\ io = NoIo

NextRelay ==
  \/ \E found \in BOOLEAN : JavaStartBegin(1, found)
  \/ \E found \in BOOLEAN : JavaStartResume(1, found)
  \/ JavaDisconnect(1)
  \/ JavaExit(1)
  \/ \E m \in Payloads : JavaClientMessage(1, m)
  \/ \E m \in Payloads : JavaBackendMessage(1, m)

SpecRelay == InitRelay /\ [][NextRelay]_vars

\* One session of the line-protocol family.
InitCsharp ==
  /\ registry = {<<1, CsOwner>>}
  /\ created = 0
  /\ lastCreate = [key |-> 1, ok |-> TRUE, owner |-> 0]
  /\ java = [o \in Owners |-> JavaBlank]
  /\ cs = CsConstructed(1)
  /\ io = NoIo

NextCsharp ==
  \/ \E found \in BOOLEAN : CsStart(found)
  \/ \E uri \in Uris, version \in 1..MaxVersion, text \in Texts : CsDidOpen(uri, version, text)
  \/ \E uri \in Uris : CsHover(uri)
  \/ \E i \in 1..MaxCalls : CsCancel(i)
  \/ \E packet \in Packets : CsLineReceived(packet)
  \/ CsClose
  \/ CsExit

SpecCsharp == InitCsharp /\ [][NextCsharp]_vars

\* One session of the line-protocol family with every kind of output line.
NextLines ==
  \/ \E found \in BOOLEAN : CsStart(found)
  \/ \E uri \in Uris, version \in 1..MaxVersion, text \in Texts : CsDidOpen(uri, version, text)
  \/ \E uri \in Uris : CsHover(uri)
  \/ \E packet \in Packets : CsLineReceived(packet)
  \/ \E line \in NoiseLines : CsNoiseLine(line)

SpecLines == InitCsharp /\ [][NextLines]_vars

\* One session of the line-protocol family with responses, cancellation and
\* the exit of the backend in every order.
NextSettle ==
  \/ \E found \in BOOLEAN : CsStart(found)
  \/ \E uri \in Uris, version \in 1..MaxVersion, text \in Texts : CsDidOpen(uri, version, text)
  \/ \E uri \in Uris : CsHover(uri)
  \/ \E i \in 1..MaxCalls : CsCancel(i)
  \/ \E packet \in Packets : CsPacketLine(packet)
  \/ CsExit

SpecSettle == InitCsharp /\ [][NextSettle]_vars

\* One session of the line-protocol family and its open-document table.
QueryMethods == {"hover", "completion", "definition", "documentHighlight"}

NextDocs ==
  \/ \E found \in BOOLEAN : CsStart(found)
  \/ \E uri \in Uris, version \in 1..MaxDocVersion, text \in DocTexts :
       DocsDidOpen(uri, version, text)
  \/ \E uri \in Uris, version \in 1..MaxDocVersion,
        contentChanges \in ChangeSeqs(ContentChanges) :
       DocsDidChange(uri, version, contentChanges)
  \/ \E uri \in Uris : DocsDidClose(uri)
  \/ \E method \in QueryMethods, uri \in Uris : DocsQuery(method, uri)
  \/ CsClose

SpecDocs == InitCsharp /\ [][NextDocs]_vars

\* A started session whose handlers are about to translate.
InitTranslator ==
  /\ registry = {<<1, CsOwner>>}
  /\ created = 0
  /\ lastCreate = [key |-> 1, ok |-> TRUE, owner |-> 0]
  /\ java = [o \in Owners |-> JavaBlank]
  /\ cs = makeRequest([CsConstructed(1) EXCEPT !.pc = "started",
                                                !.serverProcess = "running"],
                      "Projects", NoArguments, "undefined", "start", FALSE)

\* didChange applied to every text and every sequence of ranged changes.
InitEdits ==
  /\ InitTranslator
  /\ io \in [kind : {"edits"}, done : {FALSE}, text : DocTexts,
             contentChanges : ChangeSeqs(RangedChanges), out : {<<>>}]

SpecEdits == InitEdits /\ [][ApplyChanges]_vars

\* The completion handler on every document position and every response.
InitCompletion ==
  /\ InitTranslator
  /\ io \in [kind : {"completion"}, done : {FALSE}, text : DocTexts,
             position : {Position(0, n) : n \in 0..MaxLen},
             hasResponses : BOOLEAN, responses : Responses,
             out : {[isList |-> FALSE, items |-> <<>>, isIncomplete |-> FALSE]}]
  /\ ~io.hasResponses => io.responses = <<>>

SpecCompletion == InitCompletion /\ [][ReplyCompletion]_vars

\* The hover and definition handlers on every answer of the backend.
InitReplies ==
  /\ InitTranslator
  /\ \/ io \in [kind : {"hover"}, done : {FALSE}, result : HoverResults,
                out : {[kind |-> "none", value |-> ""]}]
     \/ io \in [kind : {"definition"}, done : {FALSE}, result : DefinitionResults,
                metadataResponse : MetadataResponses,
                out : {[kind |-> "none", uri |-> NoUri]}]

NextReplies == ReplyHover \/ ReplyDefinition

SpecReplies == InitReplies /\ [][NextReplies]_vars

\* ------------------------------------------------- properties
\* An owner that was constructed and has not been disposed.
JavaLive(o) == java[o].pc # "none" /\ ~java[o].destroyed

\* C1: however often dispose runs on an owner (client disconnect, backend
\* exit), the backend process is killed at most once and the registry's
\* dispose(sessionId) is invoked at most once.
C1_DisposeIdempotent ==
  /\ \A o \in Owners : java[o].killCalls <= 1 /\ java[o].registryDisposeCalls <= 1
  /\ cs.killCalls <= 1 /\ cs.registryDisposeCalls <= 1

\* C2: the registry holds at most one entry per session identifier, no two
\* live owners exist for one identifier (a create for an identifier with a
\* live owner fails), and once the owners of an identifier are disposed the
\* identifier has no entry, so a new create for it succeeds.
C2_OneLiveOwnerPerSession ==
  /\ \A e1, e2 \in registry : e1[1] = e2[1] => e1 = e2
  /\ \A o1, o2 \in Owners :
       (JavaLive(o1) /\ JavaLive(o2) /\ java[o1].spaceKey = java[o2].spaceKey)
         => o1 = o2
  /\ \A key \in SpaceKeys :
       (\A o \in Owners : java[o].spaceKey = key => java[o].destroyed)
         => ~RegistryHas(registry, key)

\* C3: the Seq of every request packet written to one backend process is
\* strictly greater than the Seq of every packet written before it.
C3_SeqStrictlyIncreasing ==
  \A j, k \in 1..Len(cs.written) :
    j < k => cs.written[j].Seq < cs.written[k].Seq

\* C3 witness: three request packets have been written.
C3_Witness == Len(cs.written) >= 3

\* C4: once the C# backend process has exited no request is pending any
\* more, and no request packet is written for a makeRequest issued after
\* the exit.
C4_ExitFailsPending ==
  /\ cs.serverProcess = "exited" =>
       \A i \in 1..Len(cs.calls) : cs.calls[i].state # "pending"
  /\ \A k \in 1..Len(cs.written) : ~cs.written[k].exited

\* C5: handling a response packet that matches no pending request settles no
\* call, raises no fault, writes nothing and leaves the pending requests as
\* they are.
C5_UnmatchedResponseIgnored ==
  [][\A p \in ResponsePackets :
       (~Matched(cs, p) /\ cs' = lineReceived(cs, PacketLine(p)))
         => /\ cs'.calls = cs.calls
            /\ cs'.requestQueue = cs.requestQueue
            /\ cs'.written = cs.written
            /\ cs'.fault = cs.fault]_vars

\* C5 witness: an unmatched response has been handled after one call was
\* answered, another call is still pending and no fault was raised.
C5_Witness ==
  /\ cs.anomalies > 0
  /\ ~cs.fault
  /\ \E i, j \in 1..Len(cs.calls) :
       cs.calls[i].state = "pending" /\ cs.calls[j].state = "resolved"

\* C6: a response packet settles the call whose sequence number is its
\* Request_seq, resolved with Body when Success is set and rejected with
\* Message or Body otherwise, and changes no other call, whatever the order
\* of arrival.
C6_ResponseSettlesItsCall ==
  [][\A p \in ResponsePackets :
       (Matched(cs, p) /\ cs' = lineReceived(cs, PacketLine(p)))
         => \A i \in 1..Len(cs.calls) :
              IF cs.calls[i].seq = p.Request_seq
                THEN /\ cs.calls[i].state = "pending"
                     /\ cs'.calls[i].state =
                          (IF p.Success THEN "resolved" ELSE "rejected")
                     /\ cs'.calls[i].result =
                          (IF p.Success THEN p.Body
                           ELSE IF p.Message # "none" THEN p.Message ELSE p.Body)
                ELSE cs'.calls[i] = cs.calls[i]]_vars

\* C6 witness: a call issued later was answered while a call issued earlier
\* is still pending, and some call was rejected by its response.
C6_Witness ==
  /\ \E i, j \in 1..Len(cs.calls) :
       /\ i < j
       /\ cs.calls[i].state = "pending"
       /\ cs.calls[j].state = "resolved"
  /\ \E k \in 1..Len(cs.calls) :
       cs.calls[k].state = "rejected" /\ cs.calls[k].result \in {"m1", "b1"}

\* C7: cancelling the token of a pending call rejects that call with the
\* cancellation signal and changes nothing else: every other call, the
\* backend process and the open-document table stay as they were.
C7_CancelOnlyThatCall ==
  [][\A i \in 1..Len(cs.calls) :
       (/\ cs.calls[i].state = "pending"
        /\ cs.calls[i].token = "live"
        /\ cs'.calls[i].token = "cancelled")
         => /\ cs'.calls[i].state = "rejected"
            /\ cs'.calls[i].result = "cancelled"
            /\ Len(cs'.calls) = Len(cs.calls)
            /\ \A j \in 1..Len(cs.calls) : j # i => cs'.calls[j] = cs.calls[j]
            /\ cs'.serverProcess = cs.serverProcess
            /\ cs'.killCalls = cs.killCalls
            /\ cs'.destroyed = cs.destroyed
            /\ cs'.openedDocumentUris = cs.openedDocumentUris]_vars

\* C7 witness: a call was cancelled while another call is still pending, the
\* backend runs and a document is open.
C7_Witness ==
  /\ cs.serverProcess = "running"
  /\ \E u \in Uris : cs.openedDocumentUris[u].open
  /\ \E i, j \in 1..Len(cs.calls) :
       /\ cs.calls[i].token = "cancelled"
       /\ cs.calls[i].result = "cancelled"
       /\ cs.calls[j].state = "pending"

\* C8: when start() of a Java owner fails while resolving, no process was
\* spawned and the owner is disposed.
C8_ResolveFailureDisposes ==
  \A o \in Owners :
    java[o].pc = "failed" =>
      java[o].process = "undefined" /\ java[o].destroyed

\* C9: once the backend process of a session has emitted its exit event the
\* owner is disposed and the registry's dispose was called, for the Java
\* owner and for the C# owner alike.
C9_ExitDisposes ==
  /\ \A o \in Owners :
       java[o].process = "exited" =>
         java[o].destroyed /\ java[o].registryDisposeCalls >= 1
  /\ cs.serverProcess = "exited" =>
       cs.destroyed /\ cs.registryDisposeCalls >= 1

\* C10: nothing is written to the backend's stdin and nothing is sent to
\* the client socket once destroyed is true.
C10_NoRelayAfterDispose ==
  /\ \A o \in Owners :
       /\ \A k \in 1..Len(java[o].stdin) : ~java[o].stdin[k].destroyed
       /\ \A k \in 1..Len(java[o].sent) : ~java[o].sent[k].destroyed
  /\ \A k \in 1..Len(cs.written) : ~cs.written[k].destroyed

\* C11: in a Java session the sequence written to the backend's stdin is
\* exactly the sequence of client messages the relay received, and the
\* sequence of frames sent to the client is exactly the sequence of backend
\* messages it read, each in arrival order: nothing is dropped, duplicated
\* or reordered within a direction, however the two directions interleave.
C11_RelayKeepsOrder ==
  \A o \in Owners :
    /\ Len(java[o].stdin) = Len(java[o].received)
    /\ \A k \in 1..Len(java[o].stdin) : java[o].stdin[k].msg = java[o].received[k]
    /\ Len(java[o].sent) = Len(java[o].read)
    /\ \A k \in 1..Len(java[o].sent) : java[o].sent[k].msg = Frame(java[o].read[k])

\* C11 witness: both directions have relayed two messages of different
\* content, the backend direction having started first.
C11_Witness ==
  \E o \in Owners :
    /\ Len(java[o].stdin) >= 2
    /\ java[o].stdin[1].msg # java[o].stdin[2].msg
    /\ Len(java[o].sent) >= 2
    /\ java[o].sent[1].msg # java[o].sent[2].msg

\* C12: the open-document table holds an entry for a file exactly while the
\* file was opened by didOpen and not closed since: after an explicit close
\* notification for the file, and after the session was disposed, the table
\* holds no entry for it.
C12_TableTracksOpenFiles ==
  \A u \in Uris :
    cs.openedDocumentUris[u].open => (u \notin cs.closeNotified /\ ~cs.destroyed)

\* C13: over any sequence of didOpen and didChange notifications the version
\* stored in a file's open-document entry never decreases.
C13_VersionNeverDecreases ==
  [][\A u \in Uris :
       (cs.openedDocumentUris[u].open /\ cs'.openedDocumentUris[u].open)
         => cs'.openedDocumentUris[u].version >= cs.openedDocumentUris[u].version]_vars

\* C18: a hover, completion, definition, documentHighlight or didChange that
\* names a document without an open-document entry does not fault inside its
\* handler, issues no backend request and leaves the table and the pending
\* requests unchanged.
C18_MissingDocumentHandled ==
  [][\A u \in Uris :
       (/\ ~cs.openedDocumentUris[u].open
        /\ cs' \in {Hover(cs, u), Completion(cs, u), Definition(cs, u),
                    DocumentHighlight(cs, u), DidChange(cs, u, 1, <<>>)})
         => /\ cs'.handlerFault = cs.handlerFault
            /\ cs'.calls = cs.calls
            /\ cs'.written = cs.written
            /\ cs'.requestQueue = cs.requestQueue
            /\ cs'.openedDocumentUris = cs.openedDocumentUris]_vars

\* C20: once a didOpen or didChange for a file has been processed, the
\* latest UpdateBuffer request written to the backend for that file carries
\* the file's identifier under FileName together with a Buffer equal to the
\* full text now stored for the file.
C20_UpdateBufferCarriesStoredText ==
  \A u \in Uris :
    cs.openedDocumentUris[u].open =>
      \E k \in 1..Len(cs.written) :
        /\ cs.written[k].Command = "UpdateBuffer"
        /\ cs.written[k].Arguments.FileName = u
        /\ cs.written[k].Arguments.hasBuffer
        /\ cs.written[k].Arguments.Buffer = cs.openedDocumentUris[u].text
        /\ \A j \in (k + 1)..Len(cs.written) :
             (/\ cs.written[j].Command = "UpdateBuffer"
              /\ u \in {cs.written[j].Arguments.FileName,
                        cs.written[j].Arguments.Filename})
               => /\ cs.written[j].Arguments.FileName = u
                  /\ cs.written[j].Arguments.Buffer = cs.openedDocumentUris[u].text

\* The content change that replaces the whole text by text: no range.
FullChange(text) ==
  [hasRange |-> FALSE, start |-> 0, end |-> 0, rangeLength |-> 0, text |-> text]

\* C14: the text a didChange leaves after a sequence of incremental range
\* edits is the text a single didChange carrying the equivalent full-text
\* replacement (a content change without a range) leaves.
C14_IncrementalEqualsFullReplacement ==
  (io.kind = "edits" /\ io.done)
    => ChangedText(io.text, <<FullChange(io.out)>>) = io.out

\* The candidates of the response that carry a label.
WithLabel(responses, label) ==
  {k \in 1..Len(responses) : responses[k].CompletionText = label}

\* C15: the translated completion result has exactly one item per distinct
\* candidate label; a label with a single candidate yields that candidate
\* with its detail unannotated; a label with N > 1 candidates yields one
\* item whose detail ends with the suffix naming N - 1 overloads and which
\* is pre-selected exactly when one of its N candidates is.
C15_OneItemPerLabel ==
  (io.kind = "completion" /\ io.done /\ io.hasResponses) =>
    LET items == io.out.items
        labels == {io.responses[k].CompletionText : k \in 1..Len(io.responses)}
    IN /\ Len(items) = Cardinality(labels)
       /\ \A label \in labels :
            \E k \in 1..Len(items) :
              LET group == WithLabel(io.responses, label)
                  N == Cardinality(group)
              IN /\ items[k].label = label
                 /\ \A j \in 1..Len(items) : items[j].label = label => j = k
                 /\ IF N = 1
                      THEN \E c \in group : items[k] = ToCompletionItem(io.responses[c])
                      ELSE /\ items[k].detail.overloads = N - 1
                           /\ items[k].preselect <=>
                                \E c \in group : io.responses[c].Preselect

\* C15 witness: a response with two candidates under one label, of which
\* only the second is pre-selected, and a single candidate under another
\* label has been translated.
C15_Witness ==
  /\ io.kind = "completion" /\ io.done /\ io.hasResponses
  /\ Len(io.responses) = 3
  /\ io.responses[1].CompletionText = "f" /\ ~io.responses[1].Preselect
  /\ io.responses[2].CompletionText = "g"
  /\ io.responses[3].CompletionText = "f" /\ io.responses[3].Preselect
  /\ Len(io.out.items) = 2

\* The word being completed at a position: the letters before it (every
\* character of a document text is a letter).
FilterText(text, position) == SubSeq(text, 1, OffsetAt(text, position))

\* C16: a completion request whose filter text (the word being completed at
\* the requested position) has length 0 or 1 yields a list marked
\* incomplete, one whose filter text has length 2 or more yields a list
\* marked complete.
C16_IncompleteForShortFilter ==
  (io.kind = "completion" /\ io.done /\ io.hasResponses) =>
    (io.out.isIncomplete <=> Len(FilterText(io.text, io.position)) <= 1)

\* The case of C17: GoToDefinition answered without a FileName but with a
\* MetadataSource.
MetadataCase ==
  /\ io.kind = "definition" /\ io.done
  /\ io.result.settled = "resolved" /\ ~io.result.isNull
  /\ io.result.FileName = <<>> /\ io.result.MetadataSource

\* C17 as stated: a go-to-definition answered without a FileName but with a
\* MetadataSource is always answered with a location in a virtual document
\* of the omnisharp-metadata scheme, never with a filesystem location or an
\* empty result.
C17_AlwaysVirtualLocation ==
  MetadataCase =>
    io.out.kind = "location" /\ io.out.uri.scheme = "omnisharp-metadata"

\* C17 amended: in that case the answer is a location in a virtual document
\* of the omnisharp-metadata scheme when the Metadata request resolves with
\* both Source and SourceName, an error when the Metadata request is
\* rejected and an empty result otherwise; it is never a filesystem
\* location.
C17_VirtualLocationOrEmpty ==
  MetadataCase =>
    IF io.metadataResponse.settled = "rejected"
      THEN io.out.kind = "error"
    ELSE IF /\ ~io.metadataResponse.isNull
            /\ io.metadataResponse.Source # ""
            /\ io.metadataResponse.SourceName # <<>>
      THEN /\ io.out.kind = "location"
           /\ io.out.uri.scheme = "omnisharp-metadata"
           /\ io.out.uri.file = io.metadataResponse.SourceName[Len(io.metadataResponse.SourceName)]
      ELSE io.out.kind = "empty"

\* C17 witness: the metadata case answered with a virtual-document location
\* whose name carries the [metadata] marker.
C17_Witness ==
  /\ MetadataCase
  /\ io.out.kind = "location"
  /\ io.out.uri.scheme = "omnisharp-metadata"
  /\ io.out.uri.metadata

\* C19: a hover whose TypeLookup is answered without type information (no
\* result, or an empty Type) is answered with an empty result, not an error.
C19_HoverWithoutTypeIsEmpty ==
  (/\ io.kind = "hover" /\ io.done
   /\ io.result.settled = "resolved"
   /\ (io.result.isNull \/ io.result.Type = ""))
    => io.out.kind = "empty"

\* C19 witness: a hover answered with no result at all has been replied to.
C19_Witness ==
  /\ io.kind = "hover" /\ io.done
  /\ io.result.settled = "resolved" /\ io.result.isNull
  /\ io.out.kind = "empty"

\* C21: an output line of the backend that does not start with '{', does
\* not parse as JSON or has no Type changes nothing: no pending request is
\* dequeued or settled, nothing is written, no fault is raised and the
\* session stays as active as it was.
C21_NoiseLineIgnored ==
  [][cs'.noiseLines # cs.noiseLines
       => /\ cs'.calls = cs.calls
          /\ cs'.requestQueue = cs.requestQueue
          /\ cs'.written = cs.written
          /\ cs'.anomalies = cs.anomalies
          /\ cs'.fault = cs.fault
          /\ cs'.pc = cs.pc
          /\ cs'.destroyed = cs.destroyed
          /\ cs'.serverProcess = cs.serverProcess
          /\ cs'.openedDocumentUris = cs.openedDocumentUris]_vars

\* C21 witness: a line that is no packet has been received while a request
\* was pending, and the request is pending still.
C21_Witness ==
  /\ cs.noiseLines > 0
  /\ cs.pc = "started"
  /\ \A i \in 1..Len(cs.calls) : cs.calls[i].state = "pending"
  /\ Len(cs.calls) >= 2

\* C22: a dispose performed by an old owner of a session identifier never
\* removes the registry entry of a newer owner created for that identifier
\* in the meantime (an owner that is not disposed keeps its entry) and never
\* kills the newer owner's process (only a disposed owner's process has been
\* killed).
C22_StaleDisposeSparesNewOwner ==
  \A o \in Owners :
    /\ JavaLive(o) => <<java[o].spaceKey, o>> \in registry
    /\ java[o].killCalls > 0 => java[o].destroyed

\* C23: when the client disconnects while the owner is still resolving,
\* dispose completes without fault and no backend process is alive for the
\* session afterwards: a destroyed owner has no running process that was
\* never killed.
C23_DisconnectWhileResolving ==
  \A o \in Owners :
    /\ ~java[o].fault
    /\ ~(java[o].destroyed /\ java[o].process = "running" /\ java[o].killCalls = 0)

\* C24: a makeRequest issued before the backend process is spawned is
\* rejected with 'server has been stopped or not started.': no pending
\* request is created, no sequence number is consumed (the first packet
\* written later still has Seq 2) and nothing is written.
C24_RejectedBeforeSpawn ==
  /\ \A i \in 1..Len(cs.calls) :
       cs.calls[i].result = "stopped" =>
         /\ cs.calls[i].state = "rejected"
         /\ cs.calls[i].seq = 0
         /\ \A e \in cs.requestQueue : e[2] # i
  /\ cs.serverProcess = "undefined" =>
       /\ cs.written = <<>>
       /\ cs._nextId = 1
       /\ cs.requestQueue = {}
       /\ \A i \in 1..Len(cs.calls) :
            cs.calls[i].state = "rejected" /\ cs.calls[i].result = "stopped"
  /\ cs.written # <<>> => cs.written[1].Seq = 2

\* C24 witness: a call was rejected before the spawn and a call issued after
\* it is pending under the first sequence number.
C24_Witness ==
  \E i, j \in 1..Len(cs.calls) :
    /\ i < j
    /\ cs.calls[i].result = "stopped"
    /\ cs.calls[j].state = "pending"
    /\ cs.calls[j].seq = 2

\* C25: every makeRequest call is settled at most once: whatever the order
\* of responses, cancellations and the backend's exit, a call that is
\* resolved or rejected keeps that outcome, also when a response naming it
\* arrives after it was cancelled.
C25_SettledAtMostOnce ==
  [][\A i \in 1..Len(cs.calls) :
       cs.calls[i].state # "pending"
         => /\ cs'.calls[i].state = cs.calls[i].state
            /\ cs'.calls[i].result = cs.calls[i].result]_vars

\* C25 witness: a response arrived that named a call cancelled before, the
\* call is still rejected with the cancellation signal, another call was
\* resolved by its response and the backend has exited.
C25_Witness ==
  /\ cs.serverProcess = "exited"
  /\ \E i \in cs.lateResponses :
       cs.calls[i].state = "rejected" /\ cs.calls[i].result = "cancelled"
  /\ \E j \in 1..Len(cs.calls) : cs.calls[j].state = "resolved"

====
